---- MODULE Spec2Model ----
(***************************************************************************)
(* mson: annotation-driven decoding of a JSON document into the fields of  *)
(* a destination struct.  The model follows the revision of the decoder    *)
(* that carries clause inversion and the arithmetic / rounding clauses     *)
(* (Unmarshal, processField, processTag together with the helper file that *)
(* defines performArithmeticOperation and performNumericalOperation).      *)
(*                                                                         *)
(* Go strings are sequences of one-character strings.  float64 values are  *)
(* decimal fixed-point numbers with FScale units per 1.0.  int64 values    *)
(* and points in time are two-limb numbers hi * Giga + lo, 0 <= lo < Giga, *)
(* so that nanosecond counts fit.                                          *)
(***************************************************************************)
EXTENDS Integers, Sequences, FiniteSets, TLC

\* ------------------------------------------------------------------ strings

\* The string literals the decoder compares against.
Lit ==
  [ s_duration |-> <<"d", "u", "r", "a", "t", "i", "o", "n">>,
    s_unix |-> <<"u", "n", "i", "x">>,
    s_nilslice |-> <<"n", "i", "l", "s", "l", "i", "c", "e">>,
    s_nilmap |-> <<"n", "i", "l", "m", "a", "p">>,
    s_equals |-> <<"e", "q", "u", "a", "l", "s">>,
    s_contains |-> <<"c", "o", "n", "t", "a", "i", "n", "s">>,
    s_empty |-> <<"e", "m", "p", "t", "y">>,
    s_fromstring |-> <<"f", "r", "o", "m", "s", "t", "r", "i", "n", "g">>,
    s_add |-> <<"a", "d", "d">>,
    s_subtract |-> <<"s", "u", "b", "t", "r", "a", "c", "t">>,
    s_multiply |-> <<"m", "u", "l", "t", "i", "p", "l", "y">>,
    s_divide |-> <<"d", "i", "v", "i", "d", "e">>,
    s_round |-> <<"r", "o", "u", "n", "d">>,
    s_floor |-> <<"f", "l", "o", "o", "r">>,
    s_ceil |-> <<"c", "e", "i", "l">>,
    s_nanoseconds |-> <<"n", "a", "n", "o", "s", "e", "c", "o", "n", "d", "s">>,
    s_microseconds |-> <<"m", "i", "c", "r", "o", "s", "e", "c", "o", "n", "d", "s">>,
    s_milliseconds |-> <<"m", "i", "l", "l", "i", "s", "e", "c", "o", "n", "d", "s">>,
    s_seconds |-> <<"s", "e", "c", "o", "n", "d", "s">>,
    s_minutes |-> <<"m", "i", "n", "u", "t", "e", "s">>,
    s_hours |-> <<"h", "o", "u", "r", "s">>,
    s_true |-> <<"t", "r", "u", "e">>,
    s_false |-> <<"f", "a", "l", "s", "e">>,
    s_null |-> <<"n", "u", "l", "l">>,
    s_nil |-> <<"<", "n", "i", "l", ">">>,
    s_dash |-> <<"-">>,
    s_under |-> <<"_">> ]

Quote == "\""

Digits == {"0", "1", "2", "3", "4", "5", "6", "7", "8", "9"}

DigitVal(c) ==
  CASE c = "0" -> 0 [] c = "1" -> 1 [] c = "2" -> 2 [] c = "3" -> 3 [] c = "4" -> 4
    [] c = "5" -> 5 [] c = "6" -> 6 [] c = "7" -> 7 [] c = "8" -> 8 [] c = "9" -> 9

DigitChar(d) ==
  CASE d = 0 -> "0" [] d = 1 -> "1" [] d = 2 -> "2" [] d = 3 -> "3" [] d = 4 -> "4"
    [] d = 5 -> "5" [] d = 6 -> "6" [] d = 7 -> "7" [] d = 8 -> "8" [] d = 9 -> "9"

\* strings.ToLower on one byte (ASCII letters).
ToLowerChar(c) ==
  CASE c = "A" -> "a" [] c = "B" -> "b" [] c = "C" -> "c" [] c = "D" -> "d" [] c = "E" -> "e"
    [] c = "F" -> "f" [] c = "G" -> "g" [] c = "H" -> "h" [] c = "I" -> "i" [] c = "J" -> "j"
    [] c = "K" -> "k" [] c = "L" -> "l" [] c = "M" -> "m" [] c = "N" -> "n" [] c = "O" -> "o"
    [] c = "P" -> "p" [] c = "Q" -> "q" [] c = "R" -> "r" [] c = "S" -> "s" [] c = "T" -> "t"
    [] c = "U" -> "u" [] c = "V" -> "v" [] c = "W" -> "w" [] c = "X" -> "x" [] c = "Y" -> "y"
    [] c = "Z" -> "z" [] OTHER -> c

ToLower(s) == [i \in 1..Len(s) |-> ToLowerChar(s[i])]

IsSpace(c) == c \in {" ", "\t", "\n", "\r"}

RECURSIVE TrimLeft(_)
TrimLeft(s) == IF s # <<>> /\ IsSpace(Head(s)) THEN TrimLeft(Tail(s)) ELSE s

RECURSIVE TrimRight(_)
TrimRight(s) ==
  IF s # <<>> /\ IsSpace(s[Len(s)]) THEN TrimRight(SubSeq(s, 1, Len(s) - 1)) ELSE s

TrimSpace(s) == TrimRight(TrimLeft(s))

\* A scanning loop that would split at every separator, quoted or not.
RECURSIVE splitLoopUnquoted(_, _, _, _, _, _)
splitLoopUnquoted(s, sep, i, start, inQuotes, parts) ==
  IF i > Len(s)
    THEN Append(parts, TrimSpace(SubSeq(s, start, Len(s))))
    ELSE IF s[i] = sep
      THEN splitLoopUnquoted(s, sep, i + 1, i + 1, inQuotes,
                             Append(parts, TrimSpace(SubSeq(s, start, i - 1))))
      ELSE splitLoopUnquoted(s, sep, i + 1, start, inQuotes, parts)

\* The scanning loop of splitIgnoreQuoted: i is the (1-based) byte under the
\* cursor, start the first byte of the token being collected.  The code's
\* `end` is always the index just scanned, so s[start:end] at a split is
\* SubSeq(s, start, i - 1) and, after the loop, SubSeq(s, start, Len(s)).
RECURSIVE splitLoop(_, _, _, _, _, _)
splitLoop(s, sep, i, start, inQuotes, parts) ==
  IF i > Len(s)
    THEN Append(parts, TrimSpace(SubSeq(s, start, Len(s))))
    ELSE IF s[i] = Quote
      THEN splitLoop(s, sep, i + 1, start, ~inQuotes, parts)
      ELSE IF s[i] = sep /\ ~inQuotes
        THEN splitLoop(s, sep, i + 1, i + 1, inQuotes,
                       Append(parts, TrimSpace(SubSeq(s, start, i - 1))))
        ELSE splitLoop(s, sep, i + 1, start, inQuotes, parts)

splitIgnoreQuoted(s, sep) == splitLoop(s, sep, 1, 1, FALSE, <<>>)

\* ------------------------------------------------------------------ numbers

\* Units of the float64 fixed-point representation per 1.0.
FScale == 10 * 10 * 10 * 10 * 10

\* Base of the two-limb representation of int64 nanosecond counts.
Giga == 1000 * 1000 * 1000

Abs(n) == IF n < 0 THEN -n ELSE n
Sgn(n) == IF n < 0 THEN -1 ELSE 1

\* Go integer division truncates toward zero.
TruncDiv(a, b) == Sgn(a) * Sgn(b) * (Abs(a) \div Abs(b))

AllDigits(s) == s # <<>> /\ \A i \in 1..Len(s) : s[i] \in Digits

RECURSIVE DigitsVal(_, _)
DigitsVal(s, acc) ==
  IF s = <<>> THEN acc ELSE DigitsVal(Tail(s), acc * 10 + DigitVal(Head(s)))

RECURSIVE IntDigits(_)
IntDigits(n) ==
  IF n < 10 THEN <<DigitChar(n)>> ELSE Append(IntDigits(n \div 10), DigitChar(n % 10))

\* strconv.Itoa / the %d verb.
FormatInt(n) == IF n < 0 THEN <<"-">> \o IntDigits(-n) ELSE IntDigits(n)

HasSign(s) == s # <<>> /\ Head(s) \in {"+", "-"}
Unsigned(s) == IF HasSign(s) THEN Tail(s) ELSE s
SignOf(s) == IF s # <<>> /\ Head(s) = "-" THEN -1 ELSE 1

\* strconv.ParseInt(s, 10, 64) and strconv.Atoi: optional sign, digits.
ParseDigits(u, sign) ==
  IF AllDigits(u) THEN [ok |-> TRUE, n |-> sign * DigitsVal(u, 0)]
  ELSE [ok |-> FALSE, n |-> 0]

ParseInt(s) == ParseDigits(Unsigned(s), SignOf(s))

\* strconv.ParseUint(s, 10, 8): digits only, at most 255.
ParseUint8(s) ==
  IF AllDigits(s) /\ Len(s) <= 3 /\ DigitsVal(s, 0) <= 255
    THEN [ok |-> TRUE, n |-> DigitsVal(s, 0)]
    ELSE [ok |-> FALSE, n |-> 0]

\* Index of the first c in s, 0 when there is none.
RECURSIVE IndexFrom(_, _, _)
IndexFrom(s, c, i) ==
  IF i > Len(s) THEN 0 ELSE IF s[i] = c THEN i ELSE IndexFrom(s, c, i + 1)

IndexOf(s, c) == IndexFrom(s, c, 1)

\* The fraction digits of a decimal literal as fixed-point units; digits
\* past the resolution of the representation are dropped.
RECURSIVE FracVal(_, _)
FracVal(s, weight) ==
  IF s = <<>> \/ weight = 0 THEN 0
  ELSE DigitVal(Head(s)) * weight + FracVal(Tail(s), weight \div 10)

RECURSIVE Pow10(_)
Pow10(e) == IF e = 0 THEN 1 ELSE 10 * Pow10(e - 1)

\* A decimal mantissa "ddd", "ddd.ddd", ".ddd" or "ddd." (at least one
\* digit), given as its integer digits ip and fraction digits fp.
MantissaOf(ip, fp) ==
  IF /\ \A i \in 1..Len(ip) : ip[i] \in Digits
     /\ \A i \in 1..Len(fp) : fp[i] \in Digits
     /\ Len(ip) + Len(fp) > 0
    THEN [ok |-> TRUE, n |-> DigitsVal(ip, 0) * FScale + FracVal(fp, FScale \div 10)]
    ELSE [ok |-> FALSE, n |-> 0]

MantissaAt(m, dot) ==
  IF dot = 0 THEN MantissaOf(m, <<>>)
  ELSE MantissaOf(SubSeq(m, 1, dot - 1), SubSeq(m, dot + 1, Len(m)))

\* mantissa * 10^exponent, signed.
ScaleFloat(m, x, sign) ==
  IF m.ok /\ x.ok
    THEN [ok |-> TRUE,
          n |-> sign * (IF x.n >= 0 THEN m.n * Pow10(x.n) ELSE m.n \div Pow10(-x.n))]
    ELSE [ok |-> FALSE, n |-> 0]

ParseFloatAt(u, sign, ei) ==
  IF ei = 0 THEN ScaleFloat(MantissaAt(u, IndexOf(u, ".")), [ok |-> TRUE, n |-> 0], sign)
  ELSE ScaleFloat(MantissaAt(SubSeq(u, 1, ei - 1), IndexOf(SubSeq(u, 1, ei - 1), ".")),
                  ParseInt(SubSeq(u, ei + 1, Len(u))), sign)

\* strconv.ParseFloat(s, 64) on decimal literals with an optional exponent
\* (the hexadecimal, "inf" and "nan" spellings are outside the inputs drawn).
ParseFloat(s) == ParseFloatAt(Unsigned(s), SignOf(s), IndexOf(ToLower(Unsigned(s)), "e"))

RECURSIVE FracDigits(_, _)
FracDigits(frac, weight) ==
  IF frac = 0 THEN <<>>
  ELSE <<DigitChar(frac \div weight)>> \o FracDigits(frac % weight, weight \div 10)

\* The %v rendering of a finite float64 (shortest decimal; exponent form
\* below 1e-4, as strconv's 'g' format does).
FormatFloat(n) ==
  LET a == Abs(n)
      sign == IF n < 0 THEN <<"-">> ELSE <<>>
  IN IF a # 0 /\ a < FScale \div 10000
       THEN sign \o <<DigitChar(a), "e", "-", "0", "5">>
       ELSE sign \o IntDigits(a \div FScale)
              \o (IF a % FScale = 0 THEN <<>>
                  ELSE <<".">> \o FracDigits(a % FScale, FScale \div 10))

\* ------------------------------------------------------------------- values

\* A Go value held in an interface{} (or stored in a field).  k is the
\* dynamic type: "nil" (the nil interface), "bool", "int", "int64",
\* "float64", "string", "time" (time.Time), "slice" ([]interface{}), "map"
\* (map[string]interface{}), "rvalue_bool" / "rvalue_time" (a reflect.Value
\* wrapping a bool / a time.Time) and "rtype" (a reflect.Type).
\*   bool: b.  int, float64: n (float64 in fixed-point units; b marks a
\*   non-finite float).  int64, time: hi * Giga + lo (time: seconds hi and
\*   nanoseconds lo since the Unix epoch; b marks the zero time.Time).
\*   string: s.  slice, map: n elements, b marks the nil slice / map.
Val(k, b, n, hi, lo, s) == [k |-> k, b |-> b, n |-> n, hi |-> hi, lo |-> lo, s |-> s]

VNil == Val("nil", FALSE, 0, 0, 0, <<>>)
VBool(b) == Val("bool", b, 0, 0, 0, <<>>)
VInt(n) == Val("int", FALSE, n, 0, 0, <<>>)
VFloat(n) == Val("float64", FALSE, n, 0, 0, <<>>)
VInf == Val("float64", TRUE, 0, 0, 0, <<>>)
VStr(s) == Val("string", FALSE, 0, 0, 0, s)
VInt64(hi, lo) == Val("int64", FALSE, 0, hi, lo, <<>>)
VTime(hi, lo) == Val("time", FALSE, 0, hi, lo, <<>>)
VZeroTime == Val("time", TRUE, 0, 0, 0, <<>>)
VSlice(n) == Val("slice", FALSE, n, 0, 0, <<>>)
VNilSlice == Val("slice", TRUE, 0, 0, 0, <<>>)
VMap(n) == Val("map", FALSE, n, 0, 0, <<>>)
VNilMap == Val("map", TRUE, 0, 0, 0, <<>>)
VRValueBool(b) == Val("rvalue_bool", b, 0, 0, 0, <<>>)
VRValueTime(t) == Val("rvalue_time", t.b, 0, t.hi, t.lo, <<>>)
VRType(name) == Val("rtype", FALSE, 0, 0, 0, name)

\* A small int64 from a number that fits one limb pair.
Int64Of(n) == VInt64(n \div Giga, n % Giga)

\* hi * Giga + lo with the carry of lo folded into hi.
Limbs(hi, lo) == [hi |-> hi + (lo \div Giga), lo |-> lo % Giga]

\* The result of a fallible step: st is "ok", "err" (an error value is
\* returned) or "panic"; msg names the message's format string.
Ok(v) == [st |-> "ok", v |-> v, msg |-> ""]
Err(msg) == [st |-> "err", v |-> VNil, msg |-> msg]
Panic(msg) == [st |-> "panic", v |-> VNil, msg |-> msg]

\* --------------------------------------------------------- time and duration

\* float64(time.<Unit>) as limbs: nanoseconds per unit.  An unknown unit
\* falls through to seconds.
UnitNanos(unit) ==
  CASE unit = Lit.s_nanoseconds -> [hi |-> 0, lo |-> 1]
    [] unit = Lit.s_microseconds -> [hi |-> 0, lo |-> 1000]
    [] unit = Lit.s_milliseconds -> [hi |-> 0, lo |-> 1000 * 1000]
    [] unit = Lit.s_minutes -> [hi |-> 60, lo |-> 0]
    [] unit = Lit.s_hours -> [hi |-> 3600, lo |-> 0]
    [] OTHER -> [hi |-> 1, lo |-> 0]

\* time.Duration(f * float64(u)) for f >= 0 in fixed-point units, given as
\* its whole part fi and fraction ff: the product truncated to whole
\* nanoseconds.
MulUnitParts(fi, ff, u) ==
  Limbs(fi * u.hi + ((ff * u.hi) \div FScale),
        fi * u.lo
          + (IF u.lo >= FScale THEN ff * (u.lo \div FScale)
             ELSE IF u.lo = 0 THEN 0 ELSE ff \div (FScale \div u.lo))
          + ((ff * u.hi) % FScale) * (Giga \div FScale))

MulUnit(f, u) == MulUnitParts(f \div FScale, f % FScale, u)

\* -(hi * Giga + lo) as limbs.
NegLimbs(d) ==
  IF d.lo = 0 THEN [hi |-> -d.hi, lo |-> 0] ELSE [hi |-> -d.hi - 1, lo |-> Giga - d.lo]

durationOf(seconds, u) ==
  IF ~seconds.ok THEN [ok |-> FALSE, d |-> [hi |-> 0, lo |-> 0]]
  ELSE [ok |-> TRUE,
        d |-> IF seconds.n < 0 THEN NegLimbs(MulUnit(-seconds.n, u)) ELSE MulUnit(seconds.n, u)]

parseDuration(value, unit) == durationOf(ParseFloat(value), UnitNanos(unit))

\* int64(f * k) for a fixed-point f and an integer factor k.
TruncMul(f, k) ==
  Sgn(f) * ((Abs(f) \div FScale) * k + ((Abs(f) % FScale) * k) \div FScale)

\* time.Unix(sec, nsec) normalises nsec into [0, 1e9).
Unix(sec, nsec) == VTime(sec + (nsec \div Giga), nsec % Giga)

\* time.UnixMilli(msec).
UnixMilli(msec) == Unix(msec \div 1000, (msec % 1000) * 1000 * 1000)

timeOf(unixTime, unit) ==
  IF ~unixTime.ok THEN [ok |-> FALSE, t |-> VZeroTime]
  ELSE [ok |-> TRUE,
        t |-> CASE unit = Lit.s_nanoseconds -> Unix(0, TruncMul(unixTime.n, 1))
                [] unit = Lit.s_microseconds -> Unix(0, TruncMul(unixTime.n, 1000))
                [] unit = Lit.s_milliseconds -> UnixMilli(TruncMul(unixTime.n, 1))
                [] unit = Lit.s_minutes -> Unix(TruncMul(unixTime.n, 60), 0)
                [] unit = Lit.s_hours -> Unix(TruncMul(unixTime.n, 3600), 0)
                [] OTHER -> Unix(TruncMul(unixTime.n, 1), 0)]

parseTime(value, unit) == timeOf(ParseFloat(value), unit)

\* time.Time.Add(d) on a point in time given as limbs.
TimeAdd(t, d) == Limbs(t.hi + d.hi, t.lo + d.lo)

\* -------------------------------------------------------------- formatting

RECURSIVE PadLeft(_, _)
PadLeft(s, width) == IF Len(s) >= width THEN s ELSE PadLeft(<<"0">> \o s, width)

\* fmt.Sprint(value) / fmt.Sprintf("%v", value).  A reflect.Value prints as
\* the value it holds.  The renderings of a point in time, of a reflect.Type
\* and of a non-empty sequence or mapping stand for Go's (none is numeric).
Sprint(v) ==
  CASE v.k = "nil" -> Lit.s_nil
    [] v.k \in {"bool", "rvalue_bool"} -> IF v.b THEN Lit.s_true ELSE Lit.s_false
    [] v.k = "int" -> FormatInt(v.n)
    [] v.k = "int64" ->
         IF v.hi = 0 THEN FormatInt(v.lo)
         ELSE IF v.hi > 0 THEN FormatInt(v.hi) \o PadLeft(FormatInt(v.lo), 9)
         ELSE <<"-">> \o FormatInt(NegLimbs(v).hi) \o PadLeft(FormatInt(NegLimbs(v).lo), 9)
    [] v.k = "float64" -> IF v.b THEN <<"+", "I", "n", "f">> ELSE FormatFloat(v.n)
    [] v.k = "string" -> v.s
    [] v.k \in {"time", "rvalue_time"} ->
         FormatInt(v.hi) \o <<" ">> \o FormatInt(v.lo) \o <<" ", "U", "T", "C">>
    [] v.k = "slice" -> IF v.n = 0 THEN <<"[", "]">> ELSE <<"[", "*", "]">>
    [] v.k = "map" -> IF v.n = 0 THEN <<"m", "a", "p", "[", "]">>
                      ELSE <<"m", "a", "p", "[", "*", "]">>
    [] v.k = "rtype" -> v.s

\* strconv.Unquote on a double-quoted literal without escapes; anything
\* else is a syntax error.
Unquote(s) ==
  IF Len(s) >= 2 /\ s[1] = Quote /\ s[Len(s)] = Quote
       /\ \A i \in 2..(Len(s) - 1) : s[i] \notin {Quote, "\\"}
    THEN [ok |-> TRUE, s |-> SubSeq(s, 2, Len(s) - 1)]
    ELSE [ok |-> FALSE, s |-> <<>>]

\* json.Unmarshal([]byte(s), &value) into an interface{}: the scalar
\* literals, a string without escapes and the empty sequence and mapping.
jsonNumber(t, f) ==
  IF t # <<>> /\ (Head(t) \in Digits \/ (Head(t) = "-" /\ Len(t) > 1 /\ t[2] \in Digits))
       /\ t[Len(t)] \in Digits /\ f.ok
    THEN Ok(VFloat(f.n))
    ELSE Err("mson: %w, unquoting of field %s to %v failed")

jsonString(t, u) == IF u.ok THEN Ok(VStr(u.s)) ELSE jsonNumber(t, ParseFloat(t))

jsonValue(t) ==
  CASE t = Lit.s_null -> Ok(VNil)
    [] t = Lit.s_true -> Ok(VBool(TRUE))
    [] t = Lit.s_false -> Ok(VBool(FALSE))
    [] t = <<"[", "]">> -> Ok(VSlice(0))
    [] t = <<"{", "}">> -> Ok(VMap(0))
    [] OTHER -> jsonString(t, Unquote(t))

jsonUnmarshal(s) == jsonValue(TrimSpace(s))

\* ---------------------------------------------------------- typed comparison

\* err == nil && v == conv for a parsed argument conv.
parsedEquals(n, conv) == conv.ok /\ n = conv.n

\* A comparison that would also compare a string value with the text.
compareStringsToo(value, arg) ==
  CASE value.k = "bool" ->
         (arg = Lit.s_true /\ value.b) \/ (arg = Lit.s_false /\ ~value.b)
    [] value.k = "int" -> parsedEquals(value.n, ParseInt(arg))
    [] value.k = "float64" -> ~value.b /\ parsedEquals(value.n, ParseFloat(arg))
    [] value.k = "string" -> value.s = arg
    [] OTHER -> FALSE

compareInterfaceValue(value, arg) ==
  CASE value.k = "bool" ->
         (arg = Lit.s_true /\ value.b) \/ (arg = Lit.s_false /\ ~value.b)
    [] value.k = "int" -> parsedEquals(value.n, ParseInt(arg))
    [] value.k = "float64" -> ~value.b /\ parsedEquals(value.n, ParseFloat(arg))
    [] OTHER -> FALSE

\* --------------------------------------------------------------- arithmetic

\* The fractional product (af / FScale) * (bf / FScale) in fixed-point units.
MulFrac(af, bf) ==
  LET q == af * (bf \div 1000)
      r == af * (bf % 1000)
  IN (q \div 100) + ((q % 100) * 1000 + r) \div FScale

FMul(a, b) ==
  LET ai == Abs(a) \div FScale
      af == Abs(a) % FScale
      bi == Abs(b) \div FScale
      bf == Abs(b) % FScale
  IN Sgn(a) * Sgn(b) * (ai * bi * FScale + ai * bf + af * bi + MulFrac(af, bf))

RECURSIVE DivFrac(_, _, _)
DivFrac(rem, b, weight) ==
  IF weight = 0 THEN 0
  ELSE ((rem * 10) \div b) * weight + DivFrac((rem * 10) % b, b, weight \div 10)

FDiv(a, b) ==
  Sgn(a) * Sgn(b)
    * ((Abs(a) \div Abs(b)) * FScale + DivFrac(Abs(a) % Abs(b), Abs(b), FScale \div 10))

IsArith(name) == name \in {Lit.s_add, Lit.s_subtract, Lit.s_multiply, Lit.s_divide}

\* op1: the int64 operator of the clause (b # 0 for divide).
op1(name, a, b) ==
  CASE name = Lit.s_add -> a + b
    [] name = Lit.s_subtract -> a - b
    [] name = Lit.s_multiply -> a * b
    [] name = Lit.s_divide -> TruncDiv(a, b)

\* op2: the float64 operator of the clause, on a value v and an operand b
\* in fixed-point units.  Division by zero and any operation on a
\* non-finite value give a non-finite value.
op2(name, v, b) ==
  IF v.b THEN VInf
  ELSE CASE name = Lit.s_add -> VFloat(v.n + b)
         [] name = Lit.s_subtract -> VFloat(v.n - b)
         [] name = Lit.s_multiply -> VFloat(FMul(v.n, b))
         [] name = Lit.s_divide -> IF b = 0 THEN VInf ELSE VFloat(FDiv(v.n, b))

\* The clause's first argument (parts[1] in the code), read only when
\* it exists.
argOf(parts) == IF Len(parts) > 1 THEN parts[2] ELSE << >>

\* The two conversions of the argument: conv by strconv.ParseInt, tried
\* first, convF by strconv.ParseFloat.
arithmeticOn(value, name, conv, convF) ==
  IF conv.ok
    THEN CASE value.k = "int" ->
                IF name = Lit.s_divide /\ conv.n = 0
                  THEN Panic("runtime error: integer divide by zero")
                  ELSE Ok(Int64Of(op1(name, value.n, conv.n)))
           [] value.k = "float64" -> Ok(op2(name, value, conv.n * FScale))
           [] OTHER -> Err("mson: field %s is not a number")
  ELSE IF convF.ok
    THEN CASE value.k = "int" -> Ok(op2(name, VFloat(value.n * FScale), convF.n))
           [] value.k = "float64" -> Ok(op2(name, value, convF.n))
           [] OTHER -> Err("mson: field %s is not a number")
  ELSE Err("mson: tag option '%s' received invalid argument %s")

performArithmeticOperation(value, parts, inverted) ==
  IF ~IsArith(parts[1]) THEN Panic("mson: unknown numerical operation %s")
  ELSE IF Len(parts) < 2 THEN Panic("mson: tag option '%s' requires at least one argument")
  ELSE arithmeticOn(value, parts[1], ParseInt(argOf(parts)), ParseFloat(argOf(parts)))

\* ----------------------------------------------------------------- rounding

IsRounding(name) == name \in {Lit.s_round, Lit.s_floor, Lit.s_ceil}

FFloor(n) == (n \div FScale) * FScale

\* math.Round, math.Floor, math.Ceil on a finite fixed-point number.
op(name, n) ==
  CASE name = Lit.s_round -> Sgn(n) * FFloor(Abs(n) + FScale \div 2)
    [] name = Lit.s_floor -> FFloor(n)
    [] name = Lit.s_ceil -> -FFloor(-n)

\* The shifted rounding of the float64 branch: v scaled up by 10^places,
\* rounded, scaled back (inverted: scaled down first).
ShiftRound(name, n, places, inverted) ==
  IF inverted THEN op(name, TruncDiv(n, Pow10(places))) * Pow10(places)
  ELSE TruncDiv(op(name, n * Pow10(places)), Pow10(places))

\* p is the parsed places argument (0 when the clause has none).
numericalOn(value, name, p, inverted) ==
  IF ~p.ok THEN Err("mson: tag option 'round' received invalid argument %s")
  ELSE CASE value.k = "float64" ->
              \* with places = 0 the int64 written to value is overwritten by
              \* the unchanged v in the assignment that follows the branches
              IF p.n = 0 \/ value.b THEN Ok(value)
              ELSE Ok(VFloat(ShiftRound(name, value.n, p.n, inverted)))
         [] value.k = "int" ->
              IF inverted /\ p.n > 0
                THEN Ok(VFloat(ShiftRound(name, value.n * FScale, p.n, TRUE)))
                ELSE Ok(value)
         [] OTHER -> Err("mson: field %s is not a number")

performNumericalOperation(value, parts, inverted) ==
  IF ~IsRounding(parts[1]) THEN Panic("mson: unknown numerical operation %s")
  ELSE numericalOn(value, parts[1],
                   IF Len(parts) > 1 THEN ParseUint8(parts[2]) ELSE [ok |-> TRUE, n |-> 0],
                   inverted)

\* ------------------------------------------------------------ field storage

\* A destination field's declared type is depth layers of pointer around a
\* base type: "bool", "int", "int64", "duration" (time.Duration), "float64",
\* "string", "time" (time.Time), "slice_any" ([]interface{}), "slice_string"
\* ([]string), "map_any" (map[string]interface{}) or "iface" (interface{}).
\* Its storage is [alloc, v]: the outermost alloc layers are non-nil and,
\* when alloc = depth, v is the value held by the innermost layer.
FieldType(depth, base) == [depth |-> depth, base |-> base]

ZeroOf(base) ==
  CASE base = "bool" -> VBool(FALSE)
    [] base = "int" -> VInt(0)
    [] base \in {"int64", "duration"} -> VInt64(0, 0)
    [] base = "float64" -> VFloat(0)
    [] base = "string" -> VStr(<<>>)
    [] base = "time" -> VZeroTime
    [] base \in {"slice_any", "slice_string"} -> VNilSlice
    [] base = "map_any" -> VNilMap
    [] base = "iface" -> VNil

\* reflect.Zero(field.Type()): a nil outermost pointer, or the base zero.
Zero(type) == [alloc |-> 0, v |-> ZeroOf(type.base)]

\* reflect.Kind of the base type.
KindOf(base) ==
  CASE base \in {"slice_any", "slice_string"} -> "slice"
    [] base = "map_any" -> "map"
    [] base = "duration" -> "int64"
    [] base = "time" -> "struct"
    [] base = "iface" -> "interface"
    [] OTHER -> base

\* The static type a dynamic value has (reflect.TypeOf).
TypeOf(value) ==
  CASE value.k = "slice" -> "slice_any"
    [] value.k = "map" -> "map_any"
    [] value.k \in {"rvalue_bool", "rvalue_time"} -> "reflect.Value"
    [] value.k = "rtype" -> "*reflect.rtype"
    [] OTHER -> value.k

\* A stripPointer that would allocate the outermost nil layer only.
stripPointerOnce(field, type) ==
  [alloc |-> IF field.alloc < type.depth THEN field.alloc + 1 ELSE type.depth,
   v |-> IF field.alloc = type.depth THEN field.v ELSE ZeroOf(type.base)]

\* stripPointer: every nil layer is allocated on the way down; the result
\* is the storage with all layers present (a freshly allocated innermost
\* layer holds the base zero value).
stripPointer(field, type) ==
  [alloc |-> type.depth,
   v |-> IF field.alloc = type.depth THEN field.v ELSE ZeroOf(type.base)]

\* reflect.Value.IsZero of reflect.ValueOf(value), value not the nil interface.
IsZero(value) ==
  CASE value.k \in {"bool"} -> ~value.b
    [] value.k \in {"int", "float64"} -> value.n = 0 /\ ~value.b
    [] value.k = "int64" -> value.hi = 0 /\ value.lo = 0
    [] value.k = "string" -> value.s = <<>>
    [] value.k \in {"time", "slice", "map"} -> value.b
    [] OTHER -> FALSE

\* inner.Set(reflect.ValueOf(value)): panics on the nil interface (the zero
\* reflect.Value) and on a value not assignable to the field's base type.
Assignable(value, base) ==
  value.k # "nil" /\ (base = "iface" \/ TypeOf(value) = base)

\* reflect.Value.MethodByName(name) on the value: whether a method of that
\* name exists, whether it takes no argument and returns one bool, and what
\* it returns.  Of the dynamic types here only time.Time and reflect.Value
\* have methods.
MethodByName(value, name) ==
  CASE value.k = "time" /\ name = <<"I", "s", "Z", "e", "r", "o">> ->
         [valid |-> TRUE, boolean |-> TRUE, result |-> value.b]
    [] value.k = "time" /\ name = <<"U", "n", "i", "x">> ->
         [valid |-> TRUE, boolean |-> FALSE, result |-> FALSE]
    [] value.k \in {"rvalue_bool", "rvalue_time"} /\ name = <<"I", "s", "Z", "e", "r", "o">> ->
         [valid |-> TRUE, boolean |-> TRUE,
          result |-> IF value.k = "rvalue_bool" THEN ~value.b ELSE value.b]
    [] OTHER -> [valid |-> FALSE, boolean |-> FALSE, result |-> FALSE]

\* ------------------------------------------------------------- the clauses

\* The negation marker of a clause: `inverted` and the switch key `modified`
\* as processTag computes them.  modified is assigned only inside the
\* branch that finds the marker; otherwise it keeps its initial "".
Inverted(parts) == Len(parts[1]) > 0 /\ parts[1][Len(parts[1])] = "!"

Modified(parts) ==
  IF Inverted(parts) THEN SubSeq(parts[1], 1, Len(parts[1]) - 1) ELSE <<>>

\* The result of one clause: st is "ok" (value replaced by v), "stop" (the
\* field was reset to zero and processTag returned nil), "err" or "panic".
Stop == [st |-> "stop", v |-> VNil, msg |-> ""]

UnitOf(parts) == IF Len(parts) > 1 THEN parts[2] ELSE Lit.s_seconds

\* time.Now().Add(duration)
nowAdd(clock, d) == VTime(TimeAdd(clock, d).hi, TimeAdd(clock, d).lo)

durationResult(duration, inverted, clock) ==
  IF ~duration.ok THEN Err("mson: %w, conversion of field %s to time.Duration failed")
  ELSE IF inverted THEN Ok(nowAdd(clock, duration.d))
  ELSE Ok(VInt64(duration.d.hi, duration.d.lo))

durationCase(value, parts, inverted, clock) ==
  durationResult(parseDuration(Sprint(value), UnitOf(parts)), inverted, clock)

unixResult(t) ==
  IF ~t.ok THEN Err("mson: %w, conversion of field %s to time.Time failed")
  ELSE Ok(VRValueTime(t.t))

unixCase(value, parts) == unixResult(parseTime(Sprint(value), UnitOf(parts)))

nilsliceCase(value, inverted, type) ==
  IF value.k = "nil"
    THEN IF inverted THEN Ok(value)
         ELSE IF KindOf(type.base) # "slice"
           THEN Err("mson: cannot convert field %s to a new slice; field is of kind %s, not a slice")
           ELSE Ok(VRType(<<"[", "]">>))
    ELSE IF inverted /\ value.k = "slice" /\ value.n = 0 THEN Ok(VNil) ELSE Ok(value)

nilmapCase(value, inverted, type) ==
  IF value.k = "nil"
    THEN IF inverted THEN Ok(value)
         ELSE IF KindOf(type.base) # "map"
           THEN Err("mson: cannot convert field %s to a new map; field is of kind %s, not a map")
           ELSE Ok(VRType(<<"m", "a", "p">>))
    ELSE IF inverted /\ value.k = "map" /\ value.n = 0 THEN Ok(VNil) ELSE Ok(value)

\* strconv.Unquote(parts[1]), the raw text kept when it fails.
unquoted(text, u) == IF u.ok THEN u.s ELSE text

equalsCase(value, parts, inverted, inner) ==
  IF Len(parts) > 1
    THEN Ok(VRValueBool(compareInterfaceValue(value, unquoted(parts[2], Unquote(parts[2])))
                          = (~inverted)))
    ELSE Ok(VRValueBool(IsZero(inner.v) = (~inverted)))

\* The branch both forms of `empty` end in.
stopIf(empty, inverted, value) ==
  IF (empty /\ ~inverted) \/ (~empty /\ inverted) THEN Stop ELSE Ok(value)

emptyByMethod(value, isZero, inverted) ==
  IF ~(isZero.valid /\ isZero.boolean)
    THEN Panic("mson: invalid function %s provided as argument to empty")
    ELSE stopIf(isZero.result, inverted, value)

emptyCase(value, parts, inverted) ==
  IF value.k = "nil" THEN Panic("reflect: call of reflect.Value method on zero Value")
  ELSE IF Len(parts) > 1 THEN emptyByMethod(value, MethodByName(value, parts[2]), inverted)
  ELSE stopIf(IsZero(value), inverted, value)

fromstringCase(value, inverted) ==
  IF value.k = "string"
    THEN IF inverted THEN Err("mson: field %s is already a string")
         ELSE jsonUnmarshal(value.s)
    ELSE IF ~inverted THEN Err("mson: field %s is not a string")
         ELSE Ok(VStr(Sprint(value)))

\* The switch of processTag on `modified`.
switchModified(modified, inverted, parts, value, inner, type, clock) ==
  CASE modified = Lit.s_duration -> durationCase(value, parts, inverted, clock)
    [] modified = Lit.s_unix -> unixCase(value, parts)
    [] modified = Lit.s_nilslice -> nilsliceCase(value, inverted, type)
    [] modified = Lit.s_nilmap -> nilmapCase(value, inverted, type)
    [] modified = Lit.s_equals -> equalsCase(value, parts, inverted, inner)
    [] modified = Lit.s_contains -> Ok(VBool(TRUE))
    [] modified = Lit.s_empty -> emptyCase(value, parts, inverted)
    [] modified = Lit.s_fromstring -> fromstringCase(value, inverted)
    [] IsArith(modified) -> performArithmeticOperation(value, parts, inverted)
    [] IsRounding(modified) -> performNumericalOperation(value, parts, inverted)
    [] OTHER -> Panic("mson: unknown tag option %s")

\* One iteration of processTag's loop over the options, on the clause's
\* parts: the clause applied to the current value.  inner is the field's
\* storage after stripPointer, clock what time.Now() returns.
processParts(parts, value, inner, type, clock) ==
  switchModified(Modified(parts), Inverted(parts), parts, value, inner, type, clock)

processOption(opt, value, inner, type, clock) ==
  processParts(splitIgnoreQuoted(opt, ","), value, inner, type, clock)

\* ------------------------------------------------------ the destination type

\* One struct field as reflection presents it: its identifier, the value of
\* its `json` tag, its declared type and whether it is exported (CanSet).
Field(name, tag, type, canSet) == [Name |-> name, Tag |-> tag, Type |-> type, CanSet |-> canSet]

RECURSIVE Join(_)
Join(tokens) ==
  IF Len(tokens) = 1 THEN Head(tokens) ELSE Head(tokens) \o <<",">> \o Join(Tail(tokens))

Not(name) == name \o <<"!">>

\* Largest whole number a document holds, deepest pointer nesting of a
\* destination field, and latest reading of the clock (seconds).
MaxNum == 5
MaxPtrDepth == 2
MaxNow == 1

kx == <<"x">>
ky == <<"y">>

\* The annotations decoded into the first field, with a type for each.
PlainFields ==
  { Field(<<"X">>, kx, FieldType(0, "float64"), TRUE),
    Field(<<"X">>, kx, FieldType(0, "string"), TRUE),
    Field(<<"X">>, kx, FieldType(0, "iface"), TRUE),
    Field(<<"X">>, kx, FieldType(0, "slice_string"), TRUE),
    Field(<<"X">>, <<>>, FieldType(0, "float64"), TRUE),
    Field(<<"X">>, Lit.s_under, FieldType(0, "string"), TRUE),
    Field(<<"X">>, <<"X">>, FieldType(0, "bool"), TRUE),
    Field(<<"X">>, Lit.s_dash, FieldType(0, "float64"), TRUE),
    Field(<<"X">>, Join(<<<<>>, Not(Lit.s_contains)>>), FieldType(0, "bool"), TRUE),
    Field(<<"A", "b">>, <<"a", "b">>, FieldType(0, "iface"), TRUE) }

ClauseFields ==
  { Field(<<"X">>, Join(<<kx, Lit.s_contains>>), FieldType(0, "bool"), TRUE),
    Field(<<"X">>, Join(<<kx, Not(Lit.s_contains)>>), FieldType(0, "bool"), TRUE),
    Field(<<"X">>, Join(<<kx, Lit.s_empty, Lit.s_add, <<"1">>>>), FieldType(0, "float64"), TRUE),
    Field(<<"X">>, Join(<<kx, Not(Lit.s_empty)>>), FieldType(0, "float64"), TRUE),
    Field(<<"X">>, Join(<<kx, Not(Lit.s_empty), Not(Lit.s_contains)>>), FieldType(0, "bool"), TRUE),
    Field(<<"X">>, Join(<<kx, Lit.s_duration, Lit.s_minutes>>), FieldType(0, "int64"), TRUE),
    Field(<<"X">>, Join(<<kx, Lit.s_duration>>), FieldType(0, "duration"), TRUE),
    Field(<<"X">>, Join(<<kx, Not(Lit.s_duration)>>), FieldType(0, "time"), TRUE),
    Field(<<"X">>, Join(<<kx, Not(Lit.s_duration), Lit.s_minutes>>), FieldType(0, "time"), TRUE),
    Field(<<"X">>, Join(<<kx, Not(Lit.s_fromstring)>>), FieldType(0, "string"), TRUE),
    Field(<<"X">>, Join(<<kx, <<" ">> \o Not(Lit.s_fromstring) \o <<" ">>, Not(Lit.s_duration)>>),
          FieldType(0, "time"), TRUE),
    Field(<<"X">>, Join(<<kx, Not(Lit.s_duration), Not(Lit.s_fromstring)>>),
          FieldType(0, "string"), TRUE),
    Field(<<"X">>, Join(<<kx, Not(Lit.s_fromstring), Not(Lit.s_fromstring)>>),
          FieldType(0, "string"), TRUE),
    Field(<<"X">>, Join(<<kx, Not(Lit.s_nilslice), Not(Lit.s_fromstring)>>),
          FieldType(0, "string"), TRUE),
    Field(<<"X">>, Join(<<kx, Not(Lit.s_nilslice)>>), FieldType(0, "slice_any"), TRUE),
    Field(<<"X">>, Join(<<kx, Lit.s_nilslice>>), FieldType(0, "slice_any"), TRUE),
    Field(<<"X">>, Join(<<kx, Not(Lit.s_nilmap)>>), FieldType(0, "map_any"), TRUE),
    Field(<<"X">>, Join(<<kx, Not(Lit.s_unix)>>), FieldType(0, "time"), TRUE),
    Field(<<"X">>, Join(<<kx, Not(Lit.s_unix)>>), FieldType(0, "iface"), TRUE),
    Field(<<"X">>, Join(<<kx, Lit.s_equals, <<Quote, "5", Quote>>>>), FieldType(0, "bool"), TRUE),
    Field(<<"X">>, Join(<<kx, Not(Lit.s_equals), <<Quote, "5", Quote>>>>), FieldType(0, "bool"), TRUE),
    Field(<<"X">>, Join(<<kx, Not(Lit.s_equals)>>), FieldType(0, "iface"), TRUE),
    Field(<<"X">>, Join(<<kx, Not(Lit.s_equals)>>), FieldType(0, "bool"), TRUE),
    Field(<<"X">>, Join(<<kx, Lit.s_round>>), FieldType(0, "int64"), TRUE),
    Field(<<"X">>, Join(<<kx, Lit.s_round, <<"2">>>>), FieldType(0, "float64"), TRUE),
    Field(<<"X">>, Join(<<kx, Not(Lit.s_round), <<"2">>>>), FieldType(0, "float64"), TRUE),
    Field(<<"X">>, Join(<<kx, Lit.s_add, <<"2">>>>), FieldType(0, "float64"), TRUE),
    Field(<<"X">>, Join(<<kx, Lit.s_add, <<"2", ".", "5">>>>), FieldType(0, "float64"), TRUE),
    Field(<<"X">>, Join(<<kx, Not(Lit.s_add), <<"2">>>>), FieldType(0, "float64"), TRUE),
    Field(<<"X">>, Join(<<kx, Not(<<"b", "o", "g", "u", "s">>)>>), FieldType(0, "float64"), TRUE) }

PointerFields ==
  UNION { { Field(<<"X">>, kx, FieldType(d, "float64"), TRUE),
            Field(<<"X">>, Join(<<kx, Not(Lit.s_empty)>>), FieldType(d, "float64"), TRUE),
            Field(<<"X">>, Join(<<kx, Not(Lit.s_contains)>>), FieldType(d, "bool"), TRUE) }
          : d \in 1..MaxPtrDepth }

FirstFields == PlainFields \cup ClauseFields \cup PointerFields

\* The field declared after it.
SecondFields ==
  { Field(<<"Y">>, ky, FieldType(0, "string"), TRUE),
    Field(<<"Y">>, Join(<<ky, Not(Lit.s_duration)>>), FieldType(0, "time"), TRUE),
    Field(<<"y">>, ky, FieldType(0, "string"), FALSE) }

\* A destination type declares the first field alone or the two in order.
DestinationTypes ==
  { <<f>> : f \in FirstFields } \cup { <<f, g>> : f \in FirstFields, g \in SecondFields }

\* A non-zero value of each base type, for an object that is not fresh.
NonZeroOf(base) ==
  CASE base = "bool" -> VBool(TRUE)
    [] base = "int" -> VInt(7)
    [] base \in {"int64", "duration"} -> VInt64(0, 7)
    [] base = "float64" -> VFloat(7 * FScale)
    [] base = "string" -> VStr(<<"p">>)
    [] base = "time" -> VTime(7, 0)
    [] base \in {"slice_any", "slice_string"} -> VSlice(1)
    [] base = "map_any" -> VMap(1)
    [] base = "iface" -> VStr(<<"p">>)

\* The objects a caller may pass for a type: fresh (all zero), or holding
\* values from earlier use, pointers allocated to any depth.
ObjectsOf(type) ==
  { [i \in 1..Len(type) |-> Zero(type[i].Type)] }
    \cup { [i \in 1..Len(type) |->
              [alloc |-> IF i = 1 THEN a ELSE type[i].Type.depth,
               v |-> IF i > 1 \/ a = type[i].Type.depth
                       THEN NonZeroOf(type[i].Type.base) ELSE ZeroOf(type[i].Type.base)]]
           : a \in 0..type[1].Type.depth }

\* ------------------------------------------------------------ the document

\* What json.Unmarshal of the input bytes gives: an error, or a mapping of
\* the document's keys (as written) to values.
DocNumbers == { VFloat(n * FScale) : n \in 0..MaxNum }
                \cup { VFloat(36 * (FScale \div 10)), VFloat(314159 * (FScale \div 100000)) }

DocValues ==
  DocNumbers \cup { VNil, VBool(TRUE), VStr(<<>>), VStr(<<"2">>), VStr(<<"a", "b", "c">>),
                    VSlice(0), VMap(0) }

Absent == Val("absent", FALSE, 0, 0, 0, <<>>)

DocOf(x, ux, y) ==
  LET keys == (IF x = Absent THEN {} ELSE {<<"x">>})
                \cup (IF ux = Absent THEN {} ELSE {<<"X">>})
                \cup (IF y = Absent THEN {} ELSE {<<"y">>})
  IN [k \in keys |-> IF k = <<"x">> THEN x ELSE IF k = <<"X">> THEN ux ELSE y]

Documents ==
  { DocOf(x, ux, y) : x \in DocValues \cup {Absent},
                      ux \in {Absent, VBool(FALSE)},
                      y \in {Absent, VStr(<<"a", "b", "c">>), VFloat(2 * FScale)} }

\* Documents holding two keys that differ only in letter case, neither of
\* them in lower case.
FoldedDocuments ==
  { [k \in {<<"A", "b">>, <<"a", "B">>} |-> IF k = <<"A", "b">> THEN v ELSE w]
      : v, w \in {VStr(<<"a", "b", "c">>), VFloat(2 * FScale)} }

Inputs == { [ok |-> TRUE, m |-> d] : d \in Documents \cup FoldedDocuments } \cup { [ok |-> FALSE, m |-> << >>] }

\* ---------------------------------------------------------------- the state

VARIABLES
  data,        \* the input as json.Unmarshal decodes it ([ok, m])
  type,        \* the destination type: its fields in declaration order
  pre,         \* the destination object when Unmarshal was called
  obj,         \* the destination object: the storage of each field
  parsedData,  \* the document with its keys lower-cased
  pc,          \* "Unmarshal", "processField", "processTag", "done"
  i,           \* index of the field the loop of Unmarshal is at
  options,     \* processTag: the clauses still to run
  value,       \* processTag: the current value
  now,         \* the clock
  ret,         \* what Unmarshal returned: [st, msg, field, clause]
  hist,        \* per field: was its key found, what was looked up, how many
               \* clauses were dispatched and how its processing ended
  call         \* a direct call of a helper: [fn, value, parts, inverted, out, done]

decode == <<data, type, pre, obj, parsedData, pc, i, options, value, now, ret, hist>>

vars == <<data, type, pre, obj, parsedData, pc, i, options, value, now, ret, hist, call>>

NoCall == [fn |-> "none", value |-> VNil, parts |-> << >>, inverted |-> FALSE,
           out |-> Ok(VNil), done |-> FALSE]

NoRet == [st |-> "none", msg |-> "", field |-> <<>>, clause |-> <<>>]
RetNil == [st |-> "nil", msg |-> "", field |-> <<>>, clause |-> <<>>]

Init ==
  /\ data \in Inputs
  /\ type \in DestinationTypes
  /\ obj \in ObjectsOf(type)
  /\ pre = obj
  /\ parsedData = << >>
  /\ pc = "Unmarshal"
  /\ i = 0
  /\ options = << >>
  /\ value = VNil
  /\ now = 0
  /\ ret = NoRet
  /\ hist = [j \in 1..Len(type) |->
               [found |-> FALSE, looked |-> VNil, ran |-> 0, end |-> "none"]]
  /\ call = NoCall

\* ------------------------------------------------------------- Unmarshal

\* One iteration of `for k, v := range parsedData`: the entry k is deleted
\* and its value stored under the lower-cased key.
lowerKey(m, k) ==
  [key \in (DOMAIN m \ {k}) \cup {ToLower(k)} |-> IF key = ToLower(k) THEN m[k] ELSE m[key]]

RECURSIVE lowerKeys(_, _)
lowerKeys(m, order) ==
  IF order = << >> THEN m ELSE lowerKeys(lowerKey(m, Head(order)), Tail(order))

\* The orders in which the range loop may visit the keys of m.
Orders(m) ==
  { o \in [1..Cardinality(DOMAIN m) -> DOMAIN m] : \A a, b \in DOMAIN o : a # b => o[a] # o[b] }

\* The declared name the field is looked up under.
nameOr(declared, identifier) ==
  IF declared = << >> \/ declared = Lit.s_under THEN identifier ELSE declared

fieldNameOf(f) == nameOr(splitIgnoreQuoted(f.Tag, ",")[1], f.Name)

\* A loop that would go on to the next field whatever the result was.
afterFieldContinue(j, st) ==
  IF j = Len(type) THEN [pc |-> "done", i |-> j]
  ELSE [pc |-> "processField", i |-> j + 1]

\* The loop of Unmarshal after field j was processed with result st: an
\* error is returned at once, otherwise the next field is taken.
afterField(j, st) ==
  IF st \in {"err", "panic"} THEN [pc |-> "done", i |-> j]
  ELSE IF j = Len(type) THEN [pc |-> "done", i |-> j]
  ELSE [pc |-> "processField", i |-> j + 1]

Finish(j, st, msg, clause) ==
  \E next \in {afterField(j, st)} :
    /\ pc' = next.pc
    /\ i' = next.i
    /\ ret' = IF st \in {"err", "panic"}
                THEN [st |-> st, msg |-> msg, field |-> fieldNameOf(type[j]), clause |-> clause]
              ELSE IF next.pc = "done" THEN RetNil ELSE ret

Unmarshal ==
  /\ pc = "Unmarshal"
  /\ IF ~data.ok
       THEN /\ ret' = [st |-> "err", msg |-> "json", field |-> <<>>, clause |-> <<>>]
            /\ pc' = "done"
            /\ UNCHANGED <<parsedData, i>>
       ELSE /\ \E order \in Orders(data.m) : parsedData' = lowerKeys(data.m, order)
            /\ pc' = "processField"
            /\ i' = 1
            /\ ret' = ret
  /\ UNCHANGED <<data, type, pre, obj, options, value, now, hist, call>>

\* ----------------------------------------------------------- processField

\* A processField that would leave such a field as the caller passed it.
absentFieldKept(field, ftype) == field

\* What processField stores into a field whose key the document lacks.
absentField(field, ftype) == Zero(ftype)

processField ==
  /\ pc = "processField"
  /\ \E f \in {type[i]} :
     \E msonTag \in {splitIgnoreQuoted(type[i].Tag, ",")} :
     \E key \in {ToLower(fieldNameOf(type[i]))} :
        IF ~f.CanSet \/ msonTag[1] = Lit.s_dash
          THEN /\ hist' = [hist EXCEPT ![i].end = "skip"]
               /\ Finish(i, "nil", "", <<>>)
               /\ UNCHANGED <<obj, options, value>>
        ELSE IF key \in DOMAIN parsedData
          THEN /\ obj' = [obj EXCEPT ![i] = stripPointer(obj[i], f.Type)]
               /\ value' = parsedData[key]
               /\ options' = Tail(msonTag)
               /\ hist' = [hist EXCEPT ![i].found = TRUE, ![i].looked = parsedData[key]]
               /\ pc' = "processTag"
               /\ UNCHANGED <<i, ret>>
        ELSE /\ obj' = [obj EXCEPT ![i] = absentField(obj[i], f.Type)]
             /\ hist' = [hist EXCEPT ![i].end = "zero"]
             /\ Finish(i, "nil", "", <<>>)
             /\ UNCHANGED <<options, value>>
  /\ UNCHANGED <<data, type, pre, parsedData, now, call>>

\* -------------------------------------------------------------- processTag

\* A loop that would hand every clause the looked-up value again.
nextValueKept(r, current) == current

\* The current value after a clause that returned r.
nextValue(r, current) == r.v

\* Whether the clause reads the clock (time.Now() in the inverted duration).
readsClock(name) == Modified(<<name>>) = Lit.s_duration /\ Inverted(<<name>>)

\* One iteration of the loop over the options.
processTagOption ==
  /\ pc = "processTag"
  /\ options # << >>
  /\ \E name \in {splitIgnoreQuoted(Head(options), ",")[1]} :
     \E clock \in (IF readsClock(name) THEN now..MaxNow ELSE {now}) :
     \E r \in {processOption(Head(options), value, obj[i], type[i].Type,
                             [hi |-> clock, lo |-> 0])} :
       /\ now' = clock
       /\ hist' = [hist EXCEPT ![i].ran = @ + 1,
                               ![i].end = IF r.st = "ok" THEN @ ELSE r.st]
       /\ CASE r.st = "ok" ->
                 /\ value' = nextValue(r, value)
                 /\ options' = Tail(options)
                 /\ UNCHANGED <<obj, pc, i, ret>>
            [] r.st = "stop" ->
                 /\ obj' = [obj EXCEPT ![i] = Zero(type[i].Type)]
                 /\ Finish(i, "nil", "", <<>>)
                 /\ UNCHANGED <<options, value>>
            [] OTHER ->
                 /\ Finish(i, r.st, r.msg, name)
                 /\ UNCHANGED <<obj, options, value>>
  /\ UNCHANGED <<data, type, pre, parsedData, call>>

\* After the last clause: inner.Set(reflect.ValueOf(value)).
processTagSet ==
  /\ pc = "processTag"
  /\ options = << >>
  /\ IF Assignable(value, type[i].Type.base)
       THEN /\ obj' = [obj EXCEPT ![i].v = value]
            /\ hist' = [hist EXCEPT ![i].end = "set"]
            /\ Finish(i, "nil", "", <<>>)
       ELSE /\ hist' = [hist EXCEPT ![i].end = "panic"]
            /\ Finish(i, "panic", "reflect.Set: value is not assignable to the field's type", <<>>)
            /\ UNCHANGED obj
  /\ UNCHANGED <<data, type, pre, parsedData, options, value, now, call>>

Next == Unmarshal \/ processField \/ processTagOption \/ processTagSet

Spec == Init /\ [][Next]_vars

\* ------------------------------------------------- the helpers called alone

\* performArithmeticOperation and performNumericalOperation applied to
\* drawn arguments: a current value of any dynamic type, a clause name with
\* or without an argument, either form.
CallValues ==
  DocNumbers \cup { VInt(n) : n \in 0..MaxNum } \cup { VInt(-7), VNil, VStr(<<"2">>) }

ArithmeticParts ==
  { <<name>> : name \in {Lit.s_add, Not(Lit.s_add)} }
    \cup { <<name, arg>> :
             name \in {Lit.s_add, Lit.s_subtract, Lit.s_multiply, Lit.s_divide},
             arg \in {<<"2">>, <<"2", ".", "5">>, <<"0">>, <<"x">>} }

NumericalParts ==
  { <<name>> : name \in {Lit.s_round, Lit.s_floor, Lit.s_ceil, Not(Lit.s_round)} }
    \cup { <<name, arg>> :
             name \in {Lit.s_round, Lit.s_floor, Lit.s_ceil},
             arg \in {<<"0">>, <<"1">>, <<"2">>, <<"-", "1">>} }

Calls ==
  { [fn |-> "performArithmeticOperation", value |-> v, parts |-> p, inverted |-> inv,
     out |-> Ok(VNil), done |-> FALSE] :
      v \in CallValues, p \in ArithmeticParts, inv \in BOOLEAN }
    \cup
  { [fn |-> "performNumericalOperation", value |-> v, parts |-> p, inverted |-> inv,
     out |-> Ok(VNil), done |-> FALSE] :
      v \in CallValues, p \in NumericalParts, inv \in BOOLEAN }

InitCall ==
  /\ data = [ok |-> FALSE, m |-> << >>]
  /\ type = << >>
  /\ obj = << >>
  /\ pre = << >>
  /\ parsedData = << >>
  /\ pc = "call"
  /\ i = 0
  /\ options = << >>
  /\ value = VNil
  /\ now = 0
  /\ ret = NoRet
  /\ hist = << >>
  /\ call \in Calls

callArithmetic ==
  /\ pc = "call"
  /\ call.fn = "performArithmeticOperation"
  /\ ~call.done
  /\ call' = [call EXCEPT
                !.out = performArithmeticOperation(call.value, call.parts, call.inverted),
                !.done = TRUE]
  /\ UNCHANGED decode

callNumerical ==
  /\ pc = "call"
  /\ call.fn = "performNumericalOperation"
  /\ ~call.done
  /\ call' = [call EXCEPT
                !.out = performNumericalOperation(call.value, call.parts, call.inverted),
                !.done = TRUE]
  /\ UNCHANGED decode

NextCall == callArithmetic \/ callNumerical

SpecCall == InitCall /\ [][NextCall]_vars

\* ------------------------------------------------ the tokenizer called alone

\* splitIgnoreQuoted applied to every string of at most MaxLen bytes over a
\* letter, the separator, the quote and a blank.
MaxLen == 4

SplitAlphabet == {"a", ",", Quote, " "}

SplitInputs == UNION { [1..n -> SplitAlphabet] : n \in 0..MaxLen }

InitSplit ==
  /\ data = [ok |-> FALSE, m |-> << >>]
  /\ type = << >>
  /\ obj = << >>
  /\ pre = << >>
  /\ parsedData = << >>
  /\ pc = "call"
  /\ i = 0
  /\ options = << >>
  /\ value = VNil
  /\ now = 0
  /\ ret = NoRet
  /\ hist = << >>
  /\ call \in { [fn |-> "splitIgnoreQuoted", s |-> s, sep |-> ",", out |-> << >>,
                 done |-> FALSE] : s \in SplitInputs }

callSplit ==
  /\ pc = "call"
  /\ call.fn = "splitIgnoreQuoted"
  /\ ~call.done
  /\ call' = [call EXCEPT !.out = splitIgnoreQuoted(call.s, call.sep), !.done = TRUE]
  /\ UNCHANGED decode

NextSplit == callSplit

SpecSplit == InitSplit /\ [][NextSplit]_vars

\* ------------------------------------------- the comparison called alone

\* compareInterfaceValue applied to a value of every dynamic type and to
\* argument texts of every shape: the two boolean literals, integers with
\* and without sign or leading zero, fractional and exponent forms, and
\* texts that are no number.
CompareValues ==
  { VBool(TRUE), VBool(FALSE), VNil, VSlice(0), VSlice(1), VMap(0), VInt64(0, 5),
    VTime(5, 0), VStr(<<"5">>), VStr(<<"a", "b", "c">>), VStr(Lit.s_true), VStr(<< >>),
    VInt(-7), VFloat(-7 * FScale), VFloat(25 * (FScale \div 10)) }
    \cup { VInt(n) : n \in 0..MaxNum }
    \cup { VFloat(n * FScale) : n \in 0..MaxNum }

CompareArgs ==
  { Lit.s_true, Lit.s_false, <<"T", "r", "u", "e">>, <<"5">>, <<"+", "5">>, <<"0", "5">>,
    <<"-", "7">>, <<"5", ".", "0">>, <<"2", ".", "5">>, <<"1", "e", "0">>, <<" ", "5">>,
    <<"a", "b", "c">>, << >> }

InitCompare ==
  /\ data = [ok |-> FALSE, m |-> << >>]
  /\ type = << >>
  /\ obj = << >>
  /\ pre = << >>
  /\ parsedData = << >>
  /\ pc = "call"
  /\ i = 0
  /\ options = << >>
  /\ value = VNil
  /\ now = 0
  /\ ret = NoRet
  /\ hist = << >>
  /\ call \in { [fn |-> "compareInterfaceValue", value |-> v, arg |-> a, out |-> FALSE,
                 done |-> FALSE] : v \in CompareValues, a \in CompareArgs }

callCompare ==
  /\ pc = "call"
  /\ call.fn = "compareInterfaceValue"
  /\ ~call.done
  /\ call' = [call EXCEPT !.out = compareInterfaceValue(call.value, call.arg), !.done = TRUE]
  /\ UNCHANGED decode

NextCompare == callCompare

SpecCompare == InitCompare /\ [][NextCompare]_vars

\* ================================================================ properties

Fields == 1..Len(type)

\* The field is marked as excluded from decoding (name "-").
Excluded(j) == splitIgnoreQuoted(type[j].Tag, ",")[1] = Lit.s_dash

\* The key field j is looked up under, and whether the document as written
\* holds a key that matches it.
keyOf(j) == ToLower(fieldNameOf(type[j]))

MatchingKeys(j) == { k \in DOMAIN data.m : ToLower(k) = keyOf(j) }

AbsentKey(j) == MatchingKeys(j) = {}

\* processField has been called for field j; field j is finished.
Processed(j) == j < i \/ (j = i /\ pc # "processField")

Finished(j) == j < i \/ (j = i /\ pc = "done")

\* Field j is the one the chain is running on, or the one it just ended on
\* (the clock has not been read since).
Current(j) ==
  \/ j = i /\ pc \in {"processTag", "done"}
  \/ j = i - 1 /\ pc = "processField"

\* Decode failed at field j.
FailedAt(j) == pc = "done" /\ i = j /\ ret.st \in {"err", "panic"}

\* The clauses of field j's annotation as processField hands them on, and
\* the name of one.
AllOptions(j) == Tail(splitIgnoreQuoted(type[j].Tag, ","))

ClauseName(opt) == splitIgnoreQuoted(opt, ",")[1]

\* The clause names the library documents, plain and inverted.
ClauseNames ==
  { Lit.s_duration, Lit.s_unix, Lit.s_nilslice, Lit.s_nilmap, Lit.s_equals, Lit.s_contains,
    Lit.s_empty, Lit.s_fromstring, Lit.s_add, Lit.s_subtract, Lit.s_multiply, Lit.s_divide,
    Lit.s_round, Lit.s_floor, Lit.s_ceil }

Recognized(name) == name \in ClauseNames \cup { Not(n) : n \in ClauseNames }

\* ------------------------------------------------------------------------ C1

\* C1: a settable, non-excluded field whose lower-cased name matches no key
\* of the document never has a clause of its chain run, is never the field
\* Decode fails at, and once processField has handled it holds the zero
\* value of its type.
C1_AbsentKeyZeroNoClause ==
  \A j \in Fields :
    (data.ok /\ type[j].CanSet /\ ~Excluded(j) /\ AbsentKey(j)) =>
      /\ ~hist[j].found
      /\ hist[j].ran = 0
      /\ ~FailedAt(j)
      /\ Processed(j) => (obj[j] = Zero(type[j].Type) /\ hist[j].end = "zero")

\* `{}` decoded into a type whose only field is annotated `contains`, the
\* field true before the call and false after it.
C1_Witness ==
  /\ pc = "done"
  /\ ret.st = "nil"
  /\ data.ok
  /\ DOMAIN data.m = {}
  /\ Len(type) = 1
  /\ type[1].Tag = Join(<<kx, Lit.s_contains>>)
  /\ pre[1].v = VBool(TRUE)
  /\ obj[1].v = VBool(FALSE)
  /\ hist[1].ran = 0

\* ------------------------------------------------------------------------ C2

\* C2: a field whose chain begins with a plain `empty` and whose looked-up
\* value is the zero value of its type ends with that one clause run, the
\* chain stopped, the field at its zero value and no failure at the field;
\* Decode goes on to the fields after it.
C2_EmptyOnZeroStops ==
  \A j \in Fields :
    ( /\ Finished(j)
      /\ hist[j].found
      /\ AllOptions(j) # << >>
      /\ ClauseName(AllOptions(j)[1]) = Lit.s_empty
      /\ hist[j].looked.k # "nil"
      /\ IsZero(hist[j].looked) ) =>
      /\ hist[j].ran = 1
      /\ hist[j].end = "stop"
      /\ obj[j] = Zero(type[j].Type)
      /\ ~FailedAt(j)
      /\ (pc = "done" /\ ret.st = "nil") => i = Len(type)

\* ------------------------------------------------------------------------ C3

\* The current value after the clauses opts were applied in order, each to
\* the output of the one before, starting from v.
RECURSIVE ChainValue(_, _, _, _, _)
ChainValue(opts, v, inner, ftype, clock) ==
  IF opts = << >> THEN v
  ELSE ChainValue(Tail(opts), processOption(Head(opts), v, inner, ftype, clock).v,
                  inner, ftype, clock)

Threaded(j, all, inner, clock) ==
  /\ hist[j].looked \in { data.m[k] : k \in MatchingKeys(j) }
  /\ hist[j].ran <= Len(all)
  /\ (j = i /\ pc = "processTag") =>
       /\ options = SubSeq(all, hist[j].ran + 1, Len(all))
       /\ value = ChainValue(SubSeq(all, 1, hist[j].ran), hist[j].looked, inner,
                             type[j].Type, clock)
  /\ hist[j].end = "set" =>
       /\ hist[j].ran = Len(all)
       /\ obj[j].v = ChainValue(all, hist[j].looked, inner, type[j].Type, clock)

\* C3: while a field's chain runs, the clauses still to run are the
\* annotation's clauses after those that ran, in annotation order, and the
\* current value is the looked-up document value passed through the clauses
\* that ran, each applied to the output of the one before; when the chain
\* ends without a stop every clause has run and the field holds the output
\* of the last one (the looked-up value for an empty chain).
C3_ChainThreadsOneValue ==
  \A j \in Fields :
    (Current(j) /\ hist[j].found) =>
      Threaded(j, AllOptions(j), stripPointer(pre[j], type[j].Type), [hi |-> now, lo |-> 0])

\* A chain of two clauses completed: `fromstring!` turned the number 2 into
\* the text "2", `duration!` turned that text into a point in time.
C3_Witness ==
  /\ pc = "done"
  /\ ret.st = "nil"
  /\ Len(type) = 1
  /\ Len(AllOptions(1)) = 2
  /\ ClauseName(AllOptions(1)[1]) = Not(Lit.s_fromstring)
  /\ ClauseName(AllOptions(1)[2]) = Not(Lit.s_duration)
  /\ hist[1].looked = VFloat(2 * FScale)
  /\ hist[1].ran = 2
  /\ hist[1].end = "set"
  /\ obj[1].v = VTime(now + 2, 0)

\* ------------------------------------------------------------------------ C4

\* C4: a clause is dispatched under its own name, plain or inverted: Decode
\* never rejects as an unknown tag option a clause whose name, with or
\* without the marker, is one of the library's clause names.
C4_InversionLocalToClause ==
  (pc = "done" /\ ret.st = "panic" /\ ret.msg = "mson: unknown tag option %s")
    => ~Recognized(ret.clause)

\* ------------------------------------------------------------------------ C5

\* No field declared after the one Decode is at has been looked up, had a
\* clause run or been written.
LaterUntouched ==
  \A j \in Fields :
    j > i => (obj[j] = pre[j] /\ ~hist[j].found /\ hist[j].ran = 0 /\ hist[j].end = "none")

\* A step leaves every field processed before the current one as it is.
EarlierKept == \A j \in Fields : j < i => (obj'[j] = obj[j] /\ hist'[j] = hist[j])

\* C5: an error or panic is recorded only together with the end of Decode,
\* and no step is taken after the end; at every moment, so also at a
\* failure, the fields declared after the current one hold the values they
\* held before the call and nothing of theirs was read or run; and no step
\* changes a field processed before the current one.
C5_FailFast ==
  /\ [](ret.st \in {"err", "panic"} => pc = "done")
  /\ []LaterUntouched
  /\ [][pc # "done" /\ EarlierKept]_vars

\* Decode returned an error at the first of two fields; the second, whose
\* key the document holds, still has the value it had before the call.
C5_Witness ==
  /\ pc = "done"
  /\ ret.st = "err"
  /\ i = 1
  /\ Len(type) = 2
  /\ type[2].CanSet
  /\ ~AbsentKey(2)
  /\ pre[2].v = NonZeroOf(type[2].Type.base)
  /\ obj[2] = pre[2]
  /\ hist[2].end = "none"

\* ------------------------------------------------------------------------ C6

\* C6: when Decode panics, the panic is one of the two fatal outcomes: an
\* unknown tag option, or an `empty` argument that names no method without
\* arguments returning a boolean.
C6_OnlyTwoFatalOutcomes ==
  (pc = "done" /\ ret.st = "panic") =>
    ret.msg \in { "mson: unknown tag option %s",
                  "mson: invalid function %s provided as argument to empty" }

\* ------------------------------------------------------------------------ C7

\* C7: with the looked-up value "2", the annotation `duration,minutes`
\* ends with the field holding the interval of 120 seconds, `duration`
\* alone with the interval of 2 seconds, and `duration!,minutes` with the
\* point in time 120 seconds after the clock's reading.
C7_DurationMinutes ==
  \A j \in Fields :
    (Current(j) /\ Finished(j) /\ hist[j].found /\ hist[j].looked = VStr(<<"2">>)) =>
      /\ AllOptions(j) = <<Lit.s_duration, Lit.s_minutes>> =>
           (hist[j].end = "set" /\ obj[j].v = VInt64(120, 0))
      /\ AllOptions(j) = <<Lit.s_duration>> =>
           (hist[j].end = "set" /\ obj[j].v = VInt64(2, 0))
      /\ AllOptions(j) = <<Not(Lit.s_duration), Lit.s_minutes>> =>
           (hist[j].end = "set" /\ obj[j].v = VTime(now + 120, 0))

\* ------------------------------------------------------------------------ C8

\* C8: performNumericalOperation in its plain form on a finite fractional
\* value: with places p > 0 the result is the fractional value rounded at
\* p decimal places, with no places argument or places 0 it is the rounded
\* value as an integer.
C8_RoundingPlaces ==
  ( /\ call.fn = "performNumericalOperation"
    /\ call.done
    /\ ~call.inverted
    /\ IsRounding(call.parts[1])
    /\ call.value.k = "float64"
    /\ ~call.value.b
    /\ ParseUint8(argOf(call.parts)).ok \/ Len(call.parts) = 1 ) =>
    IF Len(call.parts) > 1 /\ ParseUint8(argOf(call.parts)).n > 0
      THEN call.out = Ok(VFloat(ShiftRound(call.parts[1], call.value.n,
                                           ParseUint8(argOf(call.parts)).n, FALSE)))
      ELSE call.out = Ok(Int64Of(op(call.parts[1], call.value.n) \div FScale))

\* ------------------------------------------------------------------------ C9

\* C9: with a looked-up number, the annotations `add,2` and `add,2.5` end
\* with the field holding the number plus 2 and plus 2.5.
C9_ArithmeticResult ==
  \A j \in Fields :
    ( /\ Finished(j)
      /\ hist[j].found
      /\ hist[j].looked.k = "float64"
      /\ Len(AllOptions(j)) = 2
      /\ AllOptions(j)[1] = Lit.s_add
      /\ ParseFloat(AllOptions(j)[2]).ok ) =>
      /\ hist[j].end = "set"
      /\ obj[j].v = VFloat(hist[j].looked.n + ParseFloat(AllOptions(j)[2]).n)

\* ------------------------------------------------------------------------ C10

\* C10: with the looked-up value 5, the annotation `equals,"5"` ends with
\* the field holding true and `equals!,"5"` with the field holding false.
C10_EqualsAndNegation ==
  \A j \in Fields :
    ( /\ Finished(j)
      /\ hist[j].found
      /\ hist[j].looked = VFloat(5 * FScale)
      /\ Len(AllOptions(j)) = 2
      /\ AllOptions(j)[2] = <<Quote, "5", Quote>>
      /\ AllOptions(j)[1] \in {Lit.s_equals, Not(Lit.s_equals)} ) =>
      /\ hist[j].end = "set"
      /\ obj[j].v = VBool(AllOptions(j)[1] = Lit.s_equals)

\* ----------------------------------------------------------------------- C11

\* C11: with a null looked-up value, the annotation `nilslice` on a
\* sequence-typed field ends with the field holding a non-null sequence of
\* length zero; with a looked-up sequence of length zero, `nilslice!` ends
\* without failure and with the field holding the null sequence.
C11_NilsliceRoundTrip ==
  \A j \in Fields :
    (Finished(j) /\ hist[j].found /\ KindOf(type[j].Type.base) = "slice") =>
      /\ (AllOptions(j) = <<Lit.s_nilslice>> /\ hist[j].looked = VNil) =>
           (hist[j].end = "set" /\ obj[j].v = VSlice(0))
      /\ (AllOptions(j) = <<Not(Lit.s_nilslice)>> /\ hist[j].looked = VSlice(0)) =>
           (~FailedAt(j) /\ obj[j].v = VNilSlice)

\* ----------------------------------------------------------------------- C12

\* The separators of s that lie outside quoted spans, counted from the left
\* with inQuotes the state of the span at the head of s.
RECURSIVE OutsideCount(_, _, _)
OutsideCount(s, sep, inQuotes) ==
  IF s = << >> THEN 0
  ELSE IF Head(s) = Quote THEN OutsideCount(Tail(s), sep, ~inQuotes)
  ELSE (IF Head(s) = sep /\ ~inQuotes THEN 1 ELSE 0) + OutsideCount(Tail(s), sep, inQuotes)

\* How often the byte c occurs in s, and in all the tokens together.
Occurrences(s, c) == Cardinality({ n \in DOMAIN s : s[n] = c })

RECURSIVE OccurrencesIn(_, _)
OccurrencesIn(tokens, c) ==
  IF tokens = << >> THEN 0
  ELSE Occurrences(Head(tokens), c) + OccurrencesIn(Tail(tokens), c)

Trimmed(token) == token = << >> \/ (~IsSpace(token[1]) /\ ~IsSpace(token[Len(token)]))

C13_ArgumentsStayWithClause ==
  \A j \in Fields :
    (Current(j) /\ hist[j].found
       /\ type[j].Tag = Join(<<kx, Not(Lit.s_duration), Lit.s_minutes>>)) =>
      /\ hist[j].ran <= 1
      /\ (j = i /\ pc = "processTag" /\ options # << >>) =>
           /\ ClauseName(Head(options)) # Lit.s_minutes
           /\ splitIgnoreQuoted(Head(options), ",") = <<Not(Lit.s_duration), Lit.s_minutes>>

\* ----------------------------------------------------------------------- C14

\* What each argument text denotes: the integer it is the decimal form of
\* (none for a text strconv.Atoi rejects) and the number, in tenths, it is
\* a floating-point form of (none for a text strconv.ParseFloat rejects).
Denotes(arg) ==
  CASE arg \in {<<"5">>, <<"+", "5">>, <<"0", "5">>} -> [int |-> {5}, tenths |-> {50}]
    [] arg = <<"-", "7">> -> [int |-> {-7}, tenths |-> {-70}]
    [] arg = <<"5", ".", "0">> -> [int |-> {}, tenths |-> {50}]
    [] arg = <<"2", ".", "5">> -> [int |-> {}, tenths |-> {25}]
    [] arg = <<"1", "e", "0">> -> [int |-> {}, tenths |-> {10}]
    [] OTHER -> [int |-> {}, tenths |-> {}]

\* C14: the comparison always returns a boolean: for a boolean value,
\* true exactly when the argument is the literal of that value; for an
\* integer or floating-point value, true exactly when the argument is a
\* form of a number of that type equal to the value; false for a value of
\* any other dynamic type, whatever the argument.
C14_CompareTotal ==
  (call.fn = "compareInterfaceValue" /\ call.done) =>
    /\ call.out \in BOOLEAN
    /\ call.out =
         CASE call.value.k = "bool" ->
                call.arg = (IF call.value.b THEN Lit.s_true ELSE Lit.s_false)
           [] call.value.k = "int" -> call.value.n \in Denotes(call.arg).int
           [] call.value.k = "float64" ->
                \E t \in Denotes(call.arg).tenths : call.value.n = t * (FScale \div 10)
           [] OTHER -> FALSE

\* The string "abc" compared with the text `abc`: false.
C14_Witness ==
  /\ call.fn = "compareInterfaceValue"
  /\ call.done
  /\ call.value = VStr(<<"a", "b", "c">>)
  /\ call.arg = <<"a", "b", "c">>
  /\ call.out = FALSE

\* ----------------------------------------------------------------------- C15

\* The layers of field j while and after its chain ran, n being the depth
\* of its declared type.
Layered(j, n) ==
  /\ obj[j].alloc \in 0..n
  /\ (j = i /\ pc = "processTag") =>
       /\ obj[j].alloc = n
       /\ obj[j].v = IF pre[j].alloc = n THEN pre[j].v ELSE ZeroOf(type[j].Type.base)
  /\ (Current(j) /\ hist[j].end = "set") => (obj[j].alloc = n /\ obj[j].v = value)
  /\ hist[j].end \in {"zero", "stop"} => (obj[j].alloc = 0 /\ obj[j] = Zero(type[j].Type))

\* C15: once the chain of a field declared with n layers of indirection is
\* entered all n layers are allocated, layers that were allocated before
\* still holding what they held; after a chain that ended with the write,
\* all n layers are allocated and the innermost holds the chain's final
\* value; after an absent key or a stop the outermost layer is nil.
C15_PointerLayers ==
  \A j \in Fields : Layered(j, type[j].Type.depth)

\* A field declared with two layers of which the caller had allocated one:
\* after the decode both are allocated and the innermost holds the number
\* of the document.
C15_Witness ==
  /\ pc = "done"
  /\ ret.st = "nil"
  /\ Len(type) = 1
  /\ type[1].Type = FieldType(2, "float64")
  /\ pre[1].alloc = 1
  /\ hist[1].end = "set"
  /\ obj[1] = [alloc |-> 2, v |-> VFloat(3 * FScale)]

\* ----------------------------------------------------------------------- C16

\* C16: what a decode reads from the document does not depend on the order
\* in which the keys were folded: the value looked up for a field, and the
\* value a field without clauses ends with, are those every order of
\* folding the document's keys gives.
C16_SameDocumentSameResult ==
  (data.ok /\ pc # "Unmarshal") =>
    \A order \in Orders(data.m) :
      \A j \in Fields :
        /\ hist[j].found => hist[j].looked = lowerKeys(data.m, order)[keyOf(j)]
        /\ (hist[j].end = "set" /\ AllOptions(j) = << >>) =>
             obj[j].v = lowerKeys(data.m, order)[keyOf(j)]
====
